---- MODULE Spec2Model ----
(***************************************************************************)
(* docker/pdns/load-test-data.py: the PowerDNS test-data loader.           *)
(*                                                                         *)
(* The script checks that test-data.json exists, polls GET /zones until    *)
(* the API answers 200 (wait_for_api), loads the fixture, calls            *)
(* create_zone for each zone in fixture order (one POST, and for a         *)
(* Native/Master zone with record sets one PATCH), prints the count of     *)
(* successes, lists the zones of the API and exits.                        *)
(*                                                                         *)
(* Every HTTP response is an input: each action that issues a request      *)
(* draws the response from a small set.  A transport failure, for which    *)
(* make_request returns the status None, is the status NO_STATUS.          *)
(***************************************************************************)
EXTENDS Integers, Sequences, FiniteSets, TLC

VARIABLES
    file,           \* test-data.json on disk: [exists, parses, doc]
    pc,             \* where main is: check_file, wait, load, zones, patch, exited
    max_attempts,   \* wait_for_api: its parameter
    attempts,       \* wait_for_api: the GETs issued so far
    status,         \* wait_for_api: the status of the last GET
    first_ok,       \* history: the index of the first GET answered 200 (0: none yet)
    ready,          \* what wait_for_api returned: "unset", "yes", "no"
    loaded,         \* whether json.load has read the fixture
    zones,          \* main: the list of zone descriptors of the fixture
    i,              \* main: the index of the zone the for loop is at
    success_count,  \* main: success_count
    responses,      \* history: per zone handled, [post, patch, ok]
    requests,       \* history: the POST, PATCH and listing requests issued, in order
    summary,        \* the "Successfully processed x/y zones" line: <<x, y>>, or <<>>
    final,          \* main: (status, body) of the listing GET, or NoResponse
    outcome,        \* how main ended: running, return, SystemExit, KeyboardInterrupt, Exception
    exit_code,      \* the exit code of the process (NOT_EXITED while it runs)
    store,          \* the API's zone store: zone name -> the record sets it holds
    run,            \* which run of the script this is (1, or 2 after a re-run)
    baseline        \* history: the first run at its end, [store, created]

vars == <<file, pc, max_attempts, attempts, status, first_ok, ready, loaded, zones, i,
          success_count, responses, requests, summary, final, outcome, exit_code,
          store, run, baseline>>

(***************************************************************************)
(* Bounds of the model.                                                    *)
(***************************************************************************)
MaxZones == 2     \* the longest fixture
MaxBudget == 8    \* the largest max_attempts wait_for_api is called with on its own

(***************************************************************************)
(* Constants of the program.                                               *)
(***************************************************************************)
DEFAULT_MAX_ATTEMPTS == 30
HTTP_OK == 200
HTTP_CREATED == 201
HTTP_NO_CONTENT == 204
HTTP_CONFLICT == 409
NO_STATUS == 0        \* make_request's None: the request failed without a status
UNSET == -1           \* a local not assigned yet, a request not sent
NOT_EXITED == -1      \* the process is still running

(***************************************************************************)
(* The fixture: zone descriptors and documents.                            *)
(***************************************************************************)
ZoneNames == <<"a.test", "b.test", "c.test", "d.test">>
NoRecords == << >>
SomeRecords == <<"rrset-www-A">>

\* A descriptor with the required fields alone, and one with every field.
BareZone(n, k) == [name |-> n, kind |-> k]

FullZone(n, k) ==
    [name |-> n, kind |-> k, masters |-> <<"192.0.2.53">>,
     nameservers |-> <<"ns1.test.">>, account |-> "ops"]

WithRrsets(z, rr) ==
    [f \in DOMAIN z \cup {"rrsets"} |-> IF f = "rrsets" THEN rr ELSE z[f]]

\* The descriptors the k-th zone of a fixture may be: the zones of a fixture
\* have the names of ZoneNames, in order.
ZoneDescriptors(k) ==
    LET n == ZoneNames[k]
        base == {FullZone(n, "Native"), BareZone(n, "Master"),
                 BareZone(n, "Slave"), FullZone(n, "Slave")}
    IN base \cup {WithRrsets(z, rr) : z \in base, rr \in {NoRecords, SomeRecords}}

AllDescriptors == UNION {ZoneDescriptors(k) : k \in 1..MaxZones}

ZoneLists ==
    UNION {{zs \in [1..n -> AllDescriptors] : \A k \in 1..n : zs[k] \in ZoneDescriptors(k)} :
           n \in 0..MaxZones}

EmptyDoc == [f \in {} |-> f]
Documents == {EmptyDoc} \cup {[zones |-> zs] : zs \in ZoneLists}

Files ==
    {[exists |-> FALSE, parses |-> FALSE, doc |-> EmptyDoc],
     [exists |-> TRUE, parses |-> FALSE, doc |-> EmptyDoc]}
    \cup {[exists |-> TRUE, parses |-> TRUE, doc |-> d] : d \in Documents}

(***************************************************************************)
(* The responses the API may give.                                         *)
(***************************************************************************)
ReadyStatuses == {HTTP_OK, 503, NO_STATUS}
PostStatuses == {HTTP_CREATED, HTTP_CONFLICT, 422, NO_STATUS}
PatchStatuses == {HTTP_OK, HTTP_NO_CONTENT, 422, NO_STATUS}
NoResponse == [status |-> UNSET, body |-> "unset"]
ListResponses ==
    {[status |-> HTTP_OK, body |-> "zone-list"],
     [status |-> HTTP_OK, body |-> "not-json"],
     [status |-> NO_STATUS, body |-> "error"]}

(***************************************************************************)
(* The API as a zone store: POST /zones answers 201 for a name it does not *)
(* hold, and then holds it, and 409 for a name it holds; a PATCH it        *)
(* answers 200 or 204 replaces the zone's record sets.                     *)
(***************************************************************************)
EmptyStore == [n \in {} |-> << >>]

ApiPostStatus(st, payload) ==
    IF payload.name \in DOMAIN st THEN HTTP_CONFLICT ELSE HTTP_CREATED

ApiAfterPost(st, payload) ==
    IF payload.name \in DOMAIN st
    THEN st
    ELSE [n \in DOMAIN st \cup {payload.name} |->
             IF n = payload.name THEN << >> ELSE st[n]]

ApiAfterPatch(st, name, payload, s) ==
    IF s \in {HTTP_OK, HTTP_NO_CONTENT} /\ name \in DOMAIN st
    THEN [st EXCEPT ![name] = payload.rrsets]
    ELSE st

(***************************************************************************)
(* dict.get(key, default)                                                  *)
(***************************************************************************)
Get(d, key, default) == IF key \in DOMAIN d THEN d[key] ELSE default

(***************************************************************************)
(* wait_for_api                                                            *)
(***************************************************************************)
\* Mutant of HasBudget: the loop runs one iteration too many.
HasBudgetOffByOne(n, budget) == n <= budget

HasBudget(n, budget) == n < budget

IsReady(s) == s = HTTP_OK

(***************************************************************************)
(* create_zone                                                             *)
(***************************************************************************)
\* Mutant of ZoneCreation: a Slave zone is not special-cased.
ZoneCreationNoSlaveCase(zone_data) ==
    [k \in DOMAIN zone_data \ {"rrsets"} |-> zone_data[k]]

ZoneCreation(zone_data) ==
    IF zone_data.kind = "Slave"
    THEN [name |-> zone_data.name,
          kind |-> zone_data.kind,
          masters |-> Get(zone_data, "masters", << >>),
          nameservers |-> Get(zone_data, "nameservers", << >>)]
    ELSE [k \in DOMAIN zone_data \ {"rrsets"} |-> zone_data[k]]

\* Mutant of ZoneCreated: 409 is taken for a creation.
ZoneCreatedOrConflict(s) == s \in {HTTP_CREATED, HTTP_CONFLICT}

ZoneCreated(s) == s = HTTP_CREATED

\* Mutant of AlreadyExists: 409 is a failure like any other status.
AlreadyExistsNever(s) == FALSE

AlreadyExists(s) == s = HTTP_CONFLICT

\* Mutant of NeedsRecords: an empty rrsets list is patched too.
NeedsRecordsWhenPresent(zone_data) ==
    /\ zone_data.kind # "Slave"
    /\ "rrsets" \in DOMAIN zone_data

NeedsRecords(zone_data) ==
    /\ zone_data.kind # "Slave"
    /\ "rrsets" \in DOMAIN zone_data
    /\ zone_data.rrsets # << >>

\* Mutant of RecordsAdded: any HTTP status counts, only a transport failure fails.
RecordsAddedIfAnyStatus(patch_status) == patch_status # NO_STATUS

RecordsAdded(patch_status) == patch_status \in {HTTP_OK, HTTP_NO_CONTENT}

\* What create_zone returns when it issues no PATCH.
ReturnWithoutPatch(s) == ZoneCreated(s) \/ AlreadyExists(s)

PostRequest(k, zone_data) ==
    [method |-> "POST", url |-> <<"zones">>, zone |-> k, data |-> ZoneCreation(zone_data)]

PatchRequest(k, zone_data) ==
    [method |-> "PATCH", url |-> <<"zones", zone_data.name>>, zone |-> k,
     data |-> [rrsets |-> zone_data.rrsets]]

ListRequest == [method |-> "GET", url |-> <<"zones">>, zone |-> 0, data |-> EmptyDoc]

(***************************************************************************)
(* main and the __main__ block                                             *)
(***************************************************************************)
\* Mutant of ExitOnNotReady: main goes on whatever wait_for_api returned.
ExitOnNotReadyNever(ok) == FALSE

ExitOnNotReady(ok) == ~ok

\* Mutant of Counted: every zone is counted.
CountedAlways(count, ok) == count + 1

Counted(count, ok) == IF ok THEN count + 1 ELSE count

\* Mutant of NextZone: a failed zone is tried again.
NextZoneRetrying(k, ok) == IF ok THEN k + 1 ELSE k

NextZone(k, ok) == k + 1

ListingParses(r) == r.body = "zone-list"

\* Mutant of ExitCode: the handler of Exception logs and falls through.
ExitCodeSwallowing(how) ==
    CASE how = "return" -> 0
      [] how = "SystemExit" -> 1
      [] how = "KeyboardInterrupt" -> 1
      [] how = "Exception" -> 0

ExitCode(how) ==
    CASE how = "return" -> 0
      [] how = "SystemExit" -> 1
      [] how = "KeyboardInterrupt" -> 1
      [] how = "Exception" -> 1

Exit(how) ==
    /\ pc' = "exited"
    /\ outcome' = how
    /\ exit_code' = ExitCode(how)

(***************************************************************************)
(* The initial state: the process starts, the file is what it is on disk.  *)
(***************************************************************************)
Fresh ==
    /\ pc = "check_file"
    /\ attempts = 0
    /\ status = UNSET
    /\ first_ok = 0
    /\ ready = "unset"
    /\ loaded = FALSE
    /\ zones = << >>
    /\ i = 1
    /\ success_count = 0
    /\ responses = << >>
    /\ requests = << >>
    /\ summary = << >>
    /\ final = NoResponse
    /\ outcome = "running"
    /\ exit_code = NOT_EXITED

Init ==
    /\ file \in Files
    /\ max_attempts = DEFAULT_MAX_ATTEMPTS
    /\ Fresh
    /\ store = EmptyStore
    /\ run = 1
    /\ baseline = [store |-> EmptyStore, created |-> FALSE]

(***************************************************************************)
(* main, lines 122-131: the file check, then the call of wait_for_api.     *)
(***************************************************************************)
CheckFile ==
    /\ pc = "check_file"
    /\ IF file.exists
       THEN /\ pc' = "wait"
            /\ UNCHANGED <<outcome, exit_code>>
       ELSE Exit("SystemExit")
    /\ UNCHANGED <<file, max_attempts, attempts, status, first_ok, ready, loaded, zones,
                   i, success_count, responses, requests, summary, final, store, run,
                   baseline>>

\* One iteration of wait_for_api's loop: a GET, and the return when it is 200.
WaitAttempt ==
    /\ pc = "wait"
    /\ HasBudget(attempts, max_attempts)
    /\ \E s \in ReadyStatuses :
        /\ attempts' = attempts + 1
        /\ status' = s
        /\ first_ok' = IF first_ok = 0 /\ s = HTTP_OK THEN attempts + 1 ELSE first_ok
        /\ IF IsReady(s)
           THEN /\ ready' = "yes"
                /\ pc' = "load"
           ELSE UNCHANGED <<ready, pc>>
    /\ UNCHANGED <<file, max_attempts, loaded, zones, i, success_count, responses,
                   requests, summary, final, outcome, exit_code, store, run, baseline>>

\* The loop is over without a 200: wait_for_api returns False and main exits.
WaitExhausted ==
    /\ pc = "wait"
    /\ ~HasBudget(attempts, max_attempts)
    /\ ready' = "no"
    /\ IF ExitOnNotReady(FALSE)
       THEN Exit("SystemExit")
       ELSE /\ pc' = "load"
            /\ UNCHANGED <<outcome, exit_code>>
    /\ UNCHANGED <<file, max_attempts, attempts, status, first_ok, loaded, zones, i,
                   success_count, responses, requests, summary, final, store, run,
                   baseline>>

(***************************************************************************)
(* main, lines 133-141: json.load, which raises on a file that does not    *)
(* parse, then zones = test_data.get("zones", []).  The frame of           *)
(* wait_for_api is gone by now.                                            *)
(***************************************************************************)
LoadTestData ==
    /\ pc = "load"
    /\ attempts' = 0
    /\ status' = UNSET
    /\ first_ok' = 0
    /\ IF file.parses
       THEN /\ loaded' = TRUE
            /\ zones' = Get(file.doc, "zones", << >>)
            /\ pc' = "zones"
            /\ UNCHANGED <<outcome, exit_code>>
       ELSE /\ Exit("Exception")
            /\ UNCHANGED <<loaded, zones>>
    /\ UNCHANGED <<file, max_attempts, ready, i, success_count, responses, requests,
                   summary, final, store, run, baseline>>

(***************************************************************************)
(* create_zone(zones[i]) up to its POST (lines 64-83), and, when it issues *)
(* no PATCH, its return and the loop's bookkeeping (lines 85-117, 143-145).*)
(***************************************************************************)
CreateZone(s) ==
    /\ pc = "zones"
    /\ i <= Len(zones)
    /\ requests' = Append(requests, PostRequest(i, zones[i]))
    /\ IF ZoneCreated(s) /\ NeedsRecords(zones[i])
       THEN /\ pc' = "patch"
            /\ responses' = Append(responses, [post |-> s, patch |-> UNSET, ok |-> FALSE])
            /\ UNCHANGED <<i, success_count>>
       ELSE /\ pc' = "zones"
            /\ responses' = Append(responses,
                   [post |-> s, patch |-> UNSET, ok |-> ReturnWithoutPatch(s)])
            /\ success_count' = Counted(success_count, ReturnWithoutPatch(s))
            /\ i' = NextZone(i, ReturnWithoutPatch(s))
    /\ UNCHANGED <<file, max_attempts, attempts, status, first_ok, ready, loaded, zones,
                   summary, final, outcome, exit_code, run, baseline>>

\* create_zone's PATCH of the record sets (lines 89-106), and the return.
AddRecords(s) ==
    /\ pc = "patch"
    /\ requests' = Append(requests, PatchRequest(i, zones[i]))
    /\ responses' = [responses EXCEPT ![Len(responses)] =
                        [@ EXCEPT !.patch = s, !.ok = RecordsAdded(s)]]
    /\ success_count' = Counted(success_count, RecordsAdded(s))
    /\ i' = NextZone(i, RecordsAdded(s))
    /\ pc' = "zones"
    /\ UNCHANGED <<file, max_attempts, attempts, status, first_ok, ready, loaded, zones,
                   summary, final, outcome, exit_code, run, baseline>>

\* Against an API that may answer anything.
CreateZoneAny ==
    /\ \E s \in PostStatuses : CreateZone(s)
    /\ UNCHANGED store

AddRecordsAny ==
    /\ \E s \in PatchStatuses : AddRecords(s)
    /\ UNCHANGED store

(***************************************************************************)
(* main, lines 147-166: the summary line, the listing GET (json.loads of   *)
(* its body raises when the body is not JSON), the hints, and the return.  *)
(***************************************************************************)
Summarize ==
    /\ pc = "zones"
    /\ i > Len(zones)
    /\ summary' = <<success_count, Len(zones)>>
    /\ requests' = Append(requests, ListRequest)
    /\ \E r \in ListResponses :
        /\ final' = r
        /\ IF r.status = HTTP_OK /\ ~ListingParses(r)
           THEN Exit("Exception")
           ELSE Exit("return")
    /\ UNCHANGED <<file, max_attempts, attempts, status, first_ok, ready, loaded, zones,
                   i, success_count, responses, store, run, baseline>>

\* Ctrl-C at any point: KeyboardInterrupt reaches the __main__ block.
Interrupt ==
    /\ pc # "exited"
    /\ Exit("KeyboardInterrupt")
    /\ UNCHANGED <<file, max_attempts, attempts, status, first_ok, ready, loaded, zones,
                   i, success_count, responses, requests, summary, final, store, run,
                   baseline>>

Next ==
    \/ CheckFile
    \/ WaitAttempt
    \/ WaitExhausted
    \/ LoadTestData
    \/ CreateZoneAny
    \/ AddRecordsAny
    \/ Summarize
    \/ Interrupt

Spec == Init /\ [][Next]_vars

(***************************************************************************)
(* wait_for_api(max_attempts) on its own, for every budget up to MaxBudget.*)
(***************************************************************************)
InitWait ==
    /\ file = [exists |-> TRUE, parses |-> TRUE, doc |-> EmptyDoc]
    /\ max_attempts \in 0..MaxBudget
    /\ pc = "wait"
    /\ attempts = 0
    /\ status = UNSET
    /\ first_ok = 0
    /\ ready = "unset"
    /\ loaded = FALSE
    /\ zones = << >>
    /\ i = 1
    /\ success_count = 0
    /\ responses = << >>
    /\ requests = << >>
    /\ summary = << >>
    /\ final = NoResponse
    /\ outcome = "running"
    /\ exit_code = NOT_EXITED
    /\ store = EmptyStore
    /\ run = 1
    /\ baseline = [store |-> EmptyStore, created |-> FALSE]

NextWait ==
    \/ WaitAttempt
    \/ WaitExhausted

SpecWait == InitWait /\ [][NextWait]_vars

(***************************************************************************)
(* The script run twice against the API as a zone store.                   *)
(***************************************************************************)
CreateZoneStored ==
    /\ pc = "zones"
    /\ i <= Len(zones)
    /\ CreateZone(ApiPostStatus(store, ZoneCreation(zones[i])))
    /\ store' = ApiAfterPost(store, ZoneCreation(zones[i]))

AddRecordsStored ==
    /\ pc = "patch"
    /\ \E s \in PatchStatuses :
        /\ AddRecords(s)
        /\ store' = ApiAfterPatch(store, zones[i].name, [rrsets |-> zones[i].rrsets], s)

\* The script is started again, on the same file, once its first run has ended.
Rerun ==
    /\ pc = "exited"
    /\ run = 1
    /\ run' = 2
    /\ baseline' = [store |-> store,
                    created |-> /\ loaded
                                /\ Len(responses) = Len(zones)
                                /\ \A k \in 1..Len(responses) :
                                       responses[k].post = HTTP_CREATED]
    /\ pc' = "check_file"
    /\ attempts' = 0
    /\ status' = UNSET
    /\ first_ok' = 0
    /\ ready' = "unset"
    /\ loaded' = FALSE
    /\ zones' = << >>
    /\ i' = 1
    /\ success_count' = 0
    /\ responses' = << >>
    /\ requests' = << >>
    /\ summary' = << >>
    /\ final' = NoResponse
    /\ outcome' = "running"
    /\ exit_code' = NOT_EXITED
    /\ UNCHANGED <<file, max_attempts, store>>

NextRerun ==
    \/ CheckFile
    \/ WaitAttempt
    \/ WaitExhausted
    \/ LoadTestData
    \/ CreateZoneStored
    \/ AddRecordsStored
    \/ Summarize
    \/ Interrupt
    \/ Rerun

SpecRerun == Init /\ [][NextRerun]_vars

(***************************************************************************)
(* What the claims speak of.                                               *)
(***************************************************************************)
Handled == Len(responses)

FixtureZones == Get(file.doc, "zones", << >>)

\* A zone that is to get record sets: Native or Master, with a non-empty rrsets list.
HasRecordSets(z) ==
    /\ z.kind \in {"Native", "Master"}
    /\ "rrsets" \in DOMAIN z
    /\ Len(z.rrsets) > 0

RequestsOf(k, m) ==
    {j \in 1..Len(requests) : requests[j].zone = k /\ requests[j].method = m}

\* The zone a POST or a PATCH is about: the name in the payload, or in the URL.
TargetName(r) == IF r.method = "POST" THEN r.data.name ELSE r.url[2]

PatchAccepted(k) == responses[k].patch \in {HTTP_OK, HTTP_NO_CONTENT}

\* The zones handled so far whose responses make them a success.
SucceededZones ==
    {k \in 1..Handled :
        \/ responses[k].post = HTTP_CONFLICT
        \/ /\ responses[k].post = HTTP_CREATED
           /\ ~HasRecordSets(zones[k]) \/ PatchAccepted(k)}

\* create_zone has returned for every zone handled so far.
BetweenZones == pc \in {"zones", "exited"} /\ outcome # "KeyboardInterrupt"

\* The methods and zones of the requests issued, in order.
RequestTrace == [j \in 1..Len(requests) |-> <<requests[j].method, requests[j].zone>>]

RECURSIVE ZoneTrace(_)
\* The requests zones 1..k account for: a POST each, then its PATCH when one was answered
\* or is the request the program is at.
ZoneTrace(k) ==
    IF k = 0
    THEN << >>
    ELSE ZoneTrace(k - 1) \o <<(<<"POST", k>>)>>
         \o (IF responses[k].patch # UNSET THEN <<(<<"PATCH", k>>)>> ELSE << >>)

(***************************************************************************)
(* C1.  The success count main prints is the number of zones whose POST    *)
(* returned 409, or returned 201 with no PATCH required or a PATCH         *)
(* answered 200 or 204; it is N when every POST returned 201 and every     *)
(* PATCH 200 or 204.  The running count obeys the same rule after each     *)
(* zone.                                                                   *)
(***************************************************************************)
C1_SuccessCount ==
    /\ BetweenZones => success_count = Cardinality(SucceededZones)
    /\ summary # << >> =>
        /\ Handled = Len(zones)
        /\ summary = <<Cardinality(SucceededZones), Len(zones)>>
        /\ (\A k \in 1..Handled :
               /\ responses[k].post = HTTP_CREATED
               /\ responses[k].patch = UNSET \/ PatchAccepted(k))
           => summary = <<Len(zones), Len(zones)>>

C1_Witness ==
    /\ summary = <<1, 2>>
    /\ responses[1].post = HTTP_CREATED
    /\ responses[1].patch = 422
    /\ responses[2].post = HTTP_CONFLICT

(***************************************************************************)
(* C2.  A zone of any kind whose POST returned 409 is a success of         *)
(* create_zone, is counted, and gets no PATCH.                             *)
(***************************************************************************)
C2_ConflictIsSuccess ==
    /\ \A k \in 1..Handled :
        responses[k].post = HTTP_CONFLICT =>
            /\ responses[k].ok
            /\ responses[k].patch = UNSET
            /\ RequestsOf(k, "PATCH") = {}
            /\ k \in SucceededZones
    /\ (BetweenZones /\ \A k \in 1..Handled : responses[k].post = HTTP_CONFLICT)
        => success_count = Handled

C2_Witness ==
    /\ pc = "exited"
    /\ outcome = "return"
    /\ Len(zones) = 2
    /\ HasRecordSets(zones[1])
    /\ zones[2].kind = "Slave"
    /\ \A k \in 1..2 : responses[k].post = HTTP_CONFLICT
    /\ summary = <<2, 2>>

(***************************************************************************)
(* C3.  The payload POSTed for a Slave zone holds the fields name, kind,   *)
(* masters and nameservers and no other, whatever the descriptor holds,    *)
(* and no PATCH is issued for a Slave zone.                                *)
(***************************************************************************)
C3_SlavePayload ==
    /\ \A k \in 1..Handled : RequestsOf(k, "POST") # {}
    /\ \A j \in 1..Len(requests) :
        (requests[j].zone > 0 /\ zones[requests[j].zone].kind = "Slave") =>
            /\ requests[j].method = "POST"
            /\ DOMAIN requests[j].data = {"name", "kind", "masters", "nameservers"}
            /\ requests[j].data.name = zones[requests[j].zone].name
            /\ requests[j].data.kind = "Slave"
            /\ requests[j].data.masters = Get(zones[requests[j].zone], "masters", << >>)
            /\ requests[j].data.nameservers =
                   Get(zones[requests[j].zone], "nameservers", << >>)

C3_Witness ==
    /\ pc = "exited"
    /\ outcome = "return"
    /\ Len(zones) = 2
    /\ zones[1] = WithRrsets(FullZone(ZoneNames[1], "Slave"), SomeRecords)
    /\ zones[2] = WithRrsets(BareZone(ZoneNames[2], "Slave"), SomeRecords)
    /\ \A k \in 1..2 : responses[k].post = HTTP_CREATED /\ responses[k].ok

(***************************************************************************)
(* C4.  A Native or Master zone without rrsets, or with an empty rrsets    *)
(* list, gets no PATCH whatever its POST returned, and is a success when   *)
(* its POST returned 201.                                                  *)
(***************************************************************************)
C4_NoRecordsNoPatch ==
    \A k \in 1..Handled :
        (zones[k].kind \in {"Native", "Master"} /\ ~HasRecordSets(zones[k])) =>
            /\ RequestsOf(k, "PATCH") = {}
            /\ responses[k].patch = UNSET
            /\ responses[k].post = HTTP_CREATED => responses[k].ok /\ k \in SucceededZones

C4_Witness ==
    /\ pc = "exited"
    /\ outcome = "return"
    /\ Len(zones) = 2
    /\ zones[1] = WithRrsets(FullZone(ZoneNames[1], "Native"), NoRecords)
    /\ zones[2] = BareZone(ZoneNames[2], "Master")
    /\ \A k \in 1..2 : responses[k].post = HTTP_CREATED
    /\ summary = <<2, 2>>

(***************************************************************************)
(* C5.  When no readiness GET of the budget returned 200 the program exits *)
(* with status 1 without having read the fixture: it issues no POST and no *)
(* PATCH.  Nothing is read or sent before wait_for_api has returned True.  *)
(***************************************************************************)
C5_NotReadyExits ==
    /\ ready # "yes" => ~loaded /\ zones = << >> /\ requests = << >>
    /\ (attempts = max_attempts /\ first_ok = 0) =>
        /\ ~loaded
        /\ requests = << >>
        /\ pc = "wait" \/ (pc = "exited" /\ exit_code = 1)
    /\ ready = "no" =>
        /\ attempts = max_attempts
        /\ first_ok = 0
        /\ pc = "exited"
        /\ exit_code = 1

C5_Witness ==
    /\ ready = "no"
    /\ outcome = "SystemExit"
    /\ exit_code = 1
    /\ attempts = DEFAULT_MAX_ATTEMPTS
    /\ Len(FixtureZones) = 2

(***************************************************************************)
(* C6.  The exit code is 1 exactly when the fixture file is missing, the   *)
(* API never became ready, or an error or an interrupt reached the top     *)
(* level; every other run ends with 0, whatever the zones' results and the *)
(* status of the listing GET.  An error reaches the top level only from a  *)
(* fixture that does not parse or a listing body that does not.            *)
(***************************************************************************)
C6_ExitCode ==
    /\ pc # "exited" => exit_code = NOT_EXITED /\ outcome = "running"
    /\ pc = "exited" =>
        /\ exit_code \in {0, 1}
        /\ exit_code = 1 <=>
              \/ ~file.exists
              \/ ready = "no"
              \/ outcome \in {"Exception", "KeyboardInterrupt"}
        /\ outcome = "Exception" =>
              \/ ready = "yes" /\ ~file.parses
              \/ final.status = HTTP_OK /\ final.body # "zone-list"
        /\ outcome = "return" <=> (summary # << >> /\ outcome # "Exception")
        /\ outcome = "SystemExit" => (~file.exists \/ ready = "no")
        /\ ~file.exists => outcome \in {"SystemExit", "KeyboardInterrupt"}

C6_Witness ==
    /\ pc = "exited"
    /\ exit_code = 0
    /\ Len(zones) = 2
    /\ summary = <<0, 2>>
    /\ responses[1].post = NO_STATUS
    /\ responses[2].patch = 422
    /\ final.status # HTTP_OK

(***************************************************************************)
(* C7.  A Native or Master zone with record sets whose POST returned 201   *)
(* and whose PATCH returned anything but 200 or 204, a transport failure   *)
(* included, is a failure of create_zone and is not counted; its POST and  *)
(* its PATCH are the only requests ever issued for it, and the program     *)
(* issues no request but GET, POST and PATCH.                              *)
(***************************************************************************)
C7_PartialSuccess ==
    /\ \A j \in 1..Len(requests) : requests[j].method \in {"GET", "POST", "PATCH"}
    /\ success_count = Cardinality({k \in 1..Handled : responses[k].ok})
    /\ \A k \in 1..Handled :
        (/\ HasRecordSets(zones[k])
         /\ responses[k].post = HTTP_CREATED
         /\ responses[k].patch # UNSET
         /\ ~PatchAccepted(k)) =>
            /\ ~responses[k].ok
            /\ Cardinality(RequestsOf(k, "POST")) = 1
            /\ Cardinality(RequestsOf(k, "PATCH")) = 1
            /\ \A j \in 1..Len(requests) :
                  requests[j].zone = k => requests[j].method \in {"POST", "PATCH"}
            /\ \A j \in 1..Len(requests) :
                  (requests[j].method # "GET" /\ TargetName(requests[j]) = zones[k].name)
                      => requests[j].zone = k

C7_Witness ==
    /\ pc = "exited"
    /\ outcome = "return"
    /\ Len(zones) = 2
    /\ responses[1].post = HTTP_CREATED
    /\ responses[1].patch = NO_STATUS
    /\ responses[2].post = HTTP_CREATED
    /\ responses[2].patch = HTTP_NO_CONTENT
    /\ summary = <<1, 2>>

(***************************************************************************)
(* C8.  wait_for_api(max_attempts) never issues more than max_attempts     *)
(* GETs; it polls only while no GET has returned 200; it returns True iff  *)
(* a GET returned 200, having issued as many GETs as the index of that     *)
(* first 200; it returns False having issued exactly max_attempts GETs;    *)
(* and while it has not returned it can take a step.                       *)
(***************************************************************************)
C8_WaitForApi ==
    /\ attempts <= max_attempts
    /\ first_ok # 0 <=> ready = "yes"
    /\ pc = "wait" => ready = "unset" /\ status # HTTP_OK /\ ENABLED NextWait
    /\ ready = "yes" =>
        /\ status = HTTP_OK
        /\ attempts = first_ok
        /\ 1 <= first_ok /\ first_ok <= max_attempts
        /\ pc # "wait"
    /\ ready = "no" =>
        /\ attempts = max_attempts
        /\ status # HTTP_OK
        /\ pc # "wait"
    /\ ready = "unset" => pc = "wait"

C8_Witness ==
    /\ max_attempts = 5
    /\ ready = "yes"
    /\ attempts = 3
    /\ first_ok = 3

(***************************************************************************)
(* C9.  After the readiness wait the requests issued are, zone by zone in  *)
(* fixture order, one POST and then at most one PATCH, the PATCH only      *)
(* after a 201; nothing is repeated; the loop is at the zone after the     *)
(* last one handled whatever that one's result; when the summary is        *)
(* printed every zone has had its POST; and only an interrupt ends the     *)
(* loop before that.                                                       *)
(***************************************************************************)
C9_OneZoneAtATime ==
    /\ RequestTrace =
           ZoneTrace(Handled) \o (IF summary # << >> THEN <<(<<"GET", 0>>)>> ELSE << >>)
    /\ \A j \in 1..Len(requests) :
        /\ requests[j].method = "POST" =>
               requests[j].data.name = FixtureZones[requests[j].zone].name
        /\ requests[j].method = "PATCH" =>
               /\ requests[j].url = <<"zones", FixtureZones[requests[j].zone].name>>
               /\ requests[j].data = [rrsets |-> FixtureZones[requests[j].zone].rrsets]
    /\ \A k \in 1..Handled :
        responses[k].patch # UNSET => responses[k].post = HTTP_CREATED
    /\ loaded => zones = FixtureZones /\ Handled <= Len(zones)
    /\ pc = "zones" => i = Handled + 1
    /\ pc = "patch" => i = Handled /\ responses[Handled].patch = UNSET
    /\ summary # << >> => Handled = Len(zones)
    /\ (pc = "exited" /\ loaded /\ summary = << >>) => outcome = "KeyboardInterrupt"

C9_Witness ==
    /\ pc = "exited"
    /\ outcome = "return"
    /\ Len(zones) = 2
    /\ responses[1].post = NO_STATUS
    /\ responses[2].post = HTTP_CREATED
    /\ responses[2].patch = 422
    /\ Len(requests) = 4

(***************************************************************************)
(* C10.  Against the API as a zone store, a second run of the script over  *)
(* the same fixture, after a first run in which every zone was POSTed and  *)
(* every POST returned 201, gets 409 for every zone, issues no PATCH,      *)
(* leaves the store as the first run left it, and reports N/N, whether or  *)
(* not the first run's PATCHes were accepted.                              *)
(***************************************************************************)
C10_RerunIdempotent ==
    (run = 2 /\ baseline.created) =>
        /\ store = baseline.store
        /\ \A j \in 1..Len(requests) : requests[j].method # "PATCH"
        /\ \A k \in 1..Handled : responses[k].post = HTTP_CONFLICT /\ responses[k].ok
        /\ BetweenZones => success_count = Handled
        /\ summary # << >> => summary = <<Len(FixtureZones), Len(FixtureZones)>>

C10_Witness ==
    /\ run = 2
    /\ baseline.created
    /\ pc = "exited"
    /\ outcome = "return"
    /\ summary = <<2, 2>>
    /\ HasRecordSets(zones[1])
    /\ HasRecordSets(zones[2])
    /\ store[zones[1].name] = << >>
    /\ store[zones[2].name] = zones[2].rrsets

====
